---- MODULE Spec2Model ----
(***************************************************************************)
(* Model of the edge-colour adjacency matcher of src/src/main.ts:          *)
(* updateTileNeighbors (async), extractEdgeColors and edgesMatch.          *)
(*                                                                         *)
(* A tile is a record of the caller's array `tiles`; a neighbour list      *)
(* holds references to tiles, modelled as positions (1-based) in `tiles`.  *)
(* JavaScript runs one handler at a time: everything between two awaits    *)
(* is one atomic action.                                                   *)
(***************************************************************************)
EXTENDS Integers, Sequences, FiniteSets, TLC

\* ---- bounds of the model ----
MaxTiles == 3
tileSize == 2
MaxCalls == 2
MaxEdgeLen == 100
MaxDelta == 2

\* ---- program constants ----
tolerance == 2

VARIABLES tiles, calls, overlapped, edge1, edge2, epc, matched

vars == <<tiles, calls, overlapped, edge1, edge2, epc, matched>>

\* ---- colours and images ----
Red == <<255, 0, 0, 255>>
Blue == <<0, 0, 255, 255>>
Palette == {Red, Blue}

\* tile.image is optional: NoImage is the absent (falsy) image.
NoImage == [kind |-> "none", c1 |-> Red, c2 |-> Red]
\* a data URL the browser cannot decode: img.onerror fires.
BadImage == [kind |-> "bad", c1 |-> Red, c2 |-> Red]
\* decodable images: one colour, or two colours split vertically ("v":
\* left part c1, right part c2) or horizontally ("h": top c1, bottom c2).
Images ==
  {NoImage, BadImage}
    \cup {[kind |-> "solid", c1 |-> c, c2 |-> c] : c \in Palette}
    \cup {img \in [kind : {"v", "h"}, c1 : Palette, c2 : Palette] : img.c1 # img.c2}

\* the value of an optional neighbour list that was never assigned
Undefined == <<-1>>

\* the tile objects main.ts builds: id = y * cols + x, i.e. 0, 1, 2, ...
NewTile(n, img) ==
  [id |-> n, image |-> img,
   up |-> Undefined, down |-> Undefined, left |-> Undefined, right |-> Undefined]

\* ---- extractEdgeColors ----
EmptyEdges == [top |-> <<>>, bottom |-> <<>>, left |-> <<>>, right |-> <<>>]

\* colour of the decoded image at column x, row y (0-based)
PixelAt(img, size, x, y) ==
  IF img.kind = "v" THEN (IF 2 * x < size THEN img.c1 ELSE img.c2)
  ELSE IF img.kind = "h" THEN (IF 2 * y < size THEN img.c1 ELSE img.c2)
  ELSE img.c1

\* ctx.drawImage + ctx.getImageData(...).data: row-major, 4 channels a pixel
getImageData(img, size) ==
  [k \in 1..(size * size * 4) |->
     PixelAt(img, size, ((k - 1) \div 4) % size, ((k - 1) \div 4) \div size)
       [((k - 1) % 4) + 1]]

\* [pixels[idx], pixels[idx + 1], pixels[idx + 2], pixels[idx + 3]]
Quad(pixels, idx) ==
  <<pixels[idx + 1], pixels[idx + 2], pixels[idx + 3], pixels[idx + 4]>>

extractEdgeColors(imageData, size) ==
  IF imageData.kind = "bad" THEN EmptyEdges
  ELSE
    LET pixels == getImageData(imageData, size) IN
    IF Len(pixels) = 0 THEN EmptyEdges
    ELSE
      [top    |-> [x \in 1..size |-> Quad(pixels, (0 * size + (x - 1)) * 4)],
       bottom |-> [x \in 1..size |-> Quad(pixels, ((size - 1) * size + (x - 1)) * 4)],
       left   |-> [y \in 1..size |-> Quad(pixels, ((y - 1) * size + 0) * 4)],
       right  |-> [y \in 1..size |-> Quad(pixels, ((y - 1) * size + (size - 1)) * 4)]]

\* ---- edgesMatch ----
\* integer square root, rounded down, by Newton's iteration from a start
\* x that is not below the root
RECURSIVE ISqrtFrom(_, _)
ISqrtFrom(n, x) ==
  IF x = 0 THEN 0
  ELSE LET y == (x + (n \div x)) \div 2 IN
       IF y >= x THEN x ELSE ISqrtFrom(n, y)

Abs(v) == IF v < 0 THEN 0 - v ELSE v

\* Math.pow(r1 - r2, 2) + ... + Math.pow(a1 - a2, 2)
SumSq(p, q) ==
  (p[1] - q[1]) * (p[1] - q[1]) + (p[2] - q[2]) * (p[2] - q[2])
    + (p[3] - q[3]) * (p[3] - q[3]) + (p[4] - q[4]) * (p[4] - q[4])

\* Math.sqrt of the sum, in fixed point: sixteenths, rounded down.  The sum
\* is an integer, so the comparison with an integer tolerance is exact.  The
\* iteration starts from the sum of the absolute differences, which is never
\* below the root.
distance(p, q) ==
  ISqrtFrom(256 * SumSq(p, q),
            16 * (Abs(p[1] - q[1]) + Abs(p[2] - q[2])
                    + Abs(p[3] - q[3]) + Abs(p[4] - q[4])))

\* variant: a strict comparison, distance < tolerance
WithinToleranceStrict(p, q) == distance(p, q) < 16 * tolerance

\* distance <= tolerance
WithinTolerance(p, q) == distance(p, q) <= 16 * tolerance

\* the loop over i: the value of exactMatches after positions i..length
RECURSIVE exactMatches(_, _, _)
exactMatches(e1, e2, i) ==
  IF i > Len(e1) THEN 0
  ELSE (IF WithinTolerance(e1[i], e2[i]) THEN 1 ELSE 0) + exactMatches(e1, e2, i + 1)

\* exactMatches / edge1.length, in percent, rounded down: matchRatio >= 0.98
\* iff this is >= 98
matchRatio(e1, e2) == (exactMatches(e1, e2, 1) * 100) \div Len(e1)

\* variant: a strict threshold, matchRatio > 0.98
edgesMatchAbove(e1, e2) ==
  IF Len(e1) # Len(e2) THEN FALSE
  ELSE IF Len(e1) = 0 THEN FALSE
  ELSE matchRatio(e1, e2) > 98

\* variant: no guard on empty edges, ratio compared without the division
edgesMatchNoEmptyGuard(e1, e2) ==
  IF Len(e1) # Len(e2) THEN FALSE
  ELSE exactMatches(e1, e2, 1) * 100 >= 98 * Len(e1)

edgesMatch(e1, e2) ==
  IF Len(e1) # Len(e2) THEN FALSE
  ELSE IF Len(e1) = 0 THEN FALSE
  ELSE matchRatio(e1, e2) >= 98

\* ---- updateTileNeighbors ----
\* if (tile.image)
HasImage(tile) == tile.image.kind # "none"

\* variant: tile.up = tile.up || [], a list already present is kept
ResetListsKeep(ts) ==
  [t \in 1..Len(ts) |->
     [ts[t] EXCEPT !.up = IF @ = Undefined THEN <<>> ELSE @,
                   !.down = IF @ = Undefined THEN <<>> ELSE @,
                   !.left = IF @ = Undefined THEN <<>> ELSE @,
                   !.right = IF @ = Undefined THEN <<>> ELSE @]]

\* tiles.forEach(tile => { tile.up = []; tile.down = []; ... })
ResetLists(ts) ==
  [t \in 1..Len(ts) |->
     [ts[t] EXCEPT !.up = <<>>, !.down = <<>>, !.left = <<>>, !.right = <<>>]]

\* the next tile at or after position k that has an image; Len(ts) + 1 if none
RECURSIVE NextWithImage(_, _)
NextWithImage(ts, k) ==
  IF k > Len(ts) THEN k
  ELSE IF HasImage(ts[k]) THEN k
  ELSE NextWithImage(ts, k + 1)

\* variant: the self-pair is not skipped
NeverSameTile(tileA, tileB) == FALSE

\* if (tileA.id === tileB.id) return;
SameTile(tileA, tileB) == tileA.id = tileB.id

\* variant: unshift in place of push
Unshift(list, b) == <<b>> \o list

\* tileA.right!.push(tileB)
Push(list, b) == Append(list, b)

\* variant: the right edge compared with the right edge
RightMatchSameSide(edgesA, edgesB) == edgesMatch(edgesA.right, edgesB.right)

\* variant: the down test made with the edges of the right test
DownMatchAsRight(edgesA, edgesB) == edgesMatch(edgesA.right, edgesB.left)

\* variant: the left edge compared with the left edge
LeftMatchSameSide(edgesA, edgesB) == edgesMatch(edgesA.left, edgesB.left)

RightMatch(edgesA, edgesB) == edgesMatch(edgesA.right, edgesB.left)
DownMatch(edgesA, edgesB) == edgesMatch(edgesA.bottom, edgesB.top)
LeftMatch(edgesA, edgesB) == edgesMatch(edgesA.left, edgesB.right)
UpMatch(edgesA, edgesB) == edgesMatch(edgesA.top, edgesB.bottom)

\* the body of the inner forEach for tileA = ts[a], tileB = ts[b]
ComparePair(ts, te, a, b) ==
  IF ts[a].id \notin DOMAIN te THEN ts
  ELSE IF SameTile(ts[a], ts[b]) THEN ts
  ELSE IF ts[b].id \notin DOMAIN te THEN ts
  ELSE
    LET edgesA == te[ts[a].id]
        edgesB == te[ts[b].id]
        t1 == IF RightMatch(edgesA, edgesB)
              THEN [ts EXCEPT ![a].right = Push(@, b)] ELSE ts
        t2 == IF DownMatch(edgesA, edgesB)
              THEN [t1 EXCEPT ![a].down = Push(@, b)] ELSE t1
        t3 == IF LeftMatch(edgesA, edgesB)
              THEN [t2 EXCEPT ![a].left = Push(@, b)] ELSE t2
        t4 == IF UpMatch(edgesA, edgesB)
              THEN [t3 EXCEPT ![a].up = Push(@, b)] ELSE t3
    IN t4

\* the two nested forEach loops, pair number k = (a - 1) * n + (b - 1)
RECURSIVE CompareLoop(_, _, _)
CompareLoop(ts, te, k) ==
  LET n == Len(ts) IN
  IF k >= n * n THEN ts
  ELSE CompareLoop(ComparePair(ts, te, (k \div n) + 1, (k % n) + 1), te, k + 1)

\* new Map<number, EdgeColors>()
EmptyMap == [id \in {} |-> EmptyEdges]

\* tileEdges.set(id, edges)
MapSet(te, id, edges) == (id :> edges) @@ te

IdleCall == [pc |-> "idle", i |-> 0, tileEdges |-> EmptyMap, result |-> <<>>]

InFlight == {c \in 1..MaxCalls : calls[c].pc = "await"}

\* the synchronous part of a call from its start to its first await (or to
\* its return when nothing is awaited)
Invoke(c) ==
  /\ calls[c].pc = "idle"
  /\ IF c = 1 THEN TRUE ELSE calls[c - 1].pc # "idle"
  /\ LET ts0 == ResetLists(tiles)
         k == NextWithImage(ts0, 1)
     IN IF Len(tiles) = 0
        THEN /\ tiles' = ts0
             /\ calls' = [calls EXCEPT ![c].pc = "done", ![c].result = ts0]
        ELSE IF k > Len(tiles)
        THEN LET ts1 == CompareLoop(ts0, EmptyMap, 0) IN
             /\ tiles' = ts1
             /\ calls' = [calls EXCEPT ![c].pc = "done", ![c].result = ts1]
        ELSE /\ tiles' = ts0
             /\ calls' = [calls EXCEPT ![c].pc = "await", ![c].i = k]
  /\ UNCHANGED <<edge1, edge2, epc, matched>>

\* a call made while no other call is awaiting
Start(c) ==
  /\ InFlight = {}
  /\ Invoke(c)
  /\ UNCHANGED overlapped

\* a call made while another call on the same array is awaiting an image
StartDuring(c) ==
  /\ InFlight # {}
  /\ Invoke(c)
  /\ overlapped' = TRUE

\* the awaited promise of tile i resolves and a later tile has an image:
\* tileEdges.set, then the next extractEdgeColors is awaited
Resume(c) ==
  /\ calls[c].pc = "await"
  /\ LET i == calls[c].i
         edges == extractEdgeColors(tiles[i].image, tileSize)
         k == NextWithImage(tiles, i + 1)
     IN /\ k <= Len(tiles)
        /\ calls' = [calls EXCEPT ![c].i = k,
                                  ![c].tileEdges = MapSet(@, tiles[i].id, edges)]
  /\ UNCHANGED <<tiles, overlapped, edge1, edge2, epc, matched>>

\* the awaited promise of the last tile with an image resolves: tileEdges.set,
\* then the comparison loops run to the end of the function
Finish(c) ==
  /\ calls[c].pc = "await"
  /\ LET i == calls[c].i
         edges == extractEdgeColors(tiles[i].image, tileSize)
         te == MapSet(calls[c].tileEdges, tiles[i].id, edges)
         ts1 == CompareLoop(tiles, te, 0)
     IN /\ NextWithImage(tiles, i + 1) > Len(tiles)
        /\ tiles' = ts1
        /\ calls' = [calls EXCEPT ![c].pc = "done", ![c].i = Len(tiles) + 1,
                                  ![c].tileEdges = te, ![c].result = ts1]
  /\ UNCHANGED <<overlapped, edge1, edge2, epc, matched>>

\* ---- the tile arrays a caller can pass ----
TileArrays ==
  UNION {[1..n -> Images] : n \in 0..MaxTiles}

Init ==
  /\ \E imgs \in TileArrays :
       tiles = [t \in 1..Len(imgs) |-> NewTile(t - 1, imgs[t])]
  /\ calls = [c \in 1..MaxCalls |-> IdleCall]
  /\ overlapped = FALSE
  /\ edge1 = <<>>
  /\ edge2 = <<>>
  /\ epc = "off"
  /\ matched = FALSE

Next ==
  \E c \in 1..MaxCalls : Start(c) \/ Resume(c) \/ Finish(c)

Spec == Init /\ [][Next]_vars

NextOverlap ==
  \E c \in 1..MaxCalls : Start(c) \/ StartDuring(c) \/ Resume(c) \/ Finish(c)

SpecOverlap == Init /\ [][NextOverlap]_vars

\* ---- edgesMatch on its own ----
Mid == <<128, 128, 128, 128>>
Near == <<254, 1, 0, 255>>

\* n positions, m of them within tolerance of the other edge's, at the front
\* or at the back
ThresholdEdge(n, m, front) ==
  [i \in 1..n |->
     IF (front /\ i <= m) \/ (~front /\ i > n - m) THEN Near ELSE Blue]

InitEdges ==
  /\ tiles = <<>>
  /\ calls = [c \in 1..MaxCalls |-> IdleCall]
  /\ overlapped = FALSE
  /\ epc = "ready"
  /\ matched = FALSE
  /\ \/ \E n \in 0..MaxEdgeLen : \E m \in 0..n : \E front \in BOOLEAN :
          /\ edge1 = [i \in 1..n |-> Red]
          /\ edge2 = ThresholdEdge(n, m, front)
     \/ \E n1 \in 0..3 : \E n2 \in 0..3 :
          /\ edge1 = [i \in 1..n1 |-> Red]
          /\ edge2 = [i \in 1..n2 |-> Red]
     \/ \E d \in [1..4 -> (0 - MaxDelta)..MaxDelta] :
          /\ edge1 = <<Mid>>
          /\ edge2 = <<[ch \in 1..4 |-> Mid[ch] + d[ch]]>>

CallEdgesMatch ==
  /\ epc = "ready"
  /\ matched' = edgesMatch(edge1, edge2)
  /\ epc' = "returned"
  /\ UNCHANGED <<tiles, calls, overlapped, edge1, edge2>>

NextEdges == CallEdgesMatch

SpecEdges == InitEdges /\ [][NextEdges]_vars

\* ---- properties ----
N == Len(tiles)

\* some call has returned and none is suspended at an await
AfterRun == (\E c \in 1..MaxCalls : calls[c].pc = "done") /\ InFlight = {}

\* the edges extracted for tile t (it has an image)
E(t) == extractEdgeColors(tiles[t].image, tileSize)

In(list, b) == \E k \in 1..Len(list) : list[k] = b

Count(list, b) == Cardinality({k \in 1..Len(list) : list[k] = b})

\* C1: after a run, for distinct tiles A, B whose edges were both extracted,
\* B is in A.right iff A's right edge matches B's left edge, in A.down iff
\* A's bottom matches B's top, in A.left iff A's left matches B's right, in
\* A.up iff A's top matches B's bottom; B is at most once in each list.
C1_NeighborsIffEdgesMatch ==
  AfterRun =>
    \A a \in 1..N : \A b \in 1..N :
      (a # b /\ HasImage(tiles[a]) /\ HasImage(tiles[b])) =>
        /\ In(tiles[a].right, b) <=> edgesMatch(E(a).right, E(b).left)
        /\ In(tiles[a].down, b) <=> edgesMatch(E(a).bottom, E(b).top)
        /\ In(tiles[a].left, b) <=> edgesMatch(E(a).left, E(b).right)
        /\ In(tiles[a].up, b) <=> edgesMatch(E(a).top, E(b).bottom)
        /\ Count(tiles[a].right, b) <= 1
        /\ Count(tiles[a].down, b) <= 1
        /\ Count(tiles[a].left, b) <= 1
        /\ Count(tiles[a].up, b) <= 1

C1_Witness ==
  /\ AfterRun
  /\ \E a \in 1..N : \E b \in 1..N :
       /\ a # b
       /\ HasImage(tiles[a])
       /\ HasImage(tiles[b])
       /\ edgesMatch(E(a).right, E(b).left)
       /\ In(tiles[a].right, b)
       /\ ~edgesMatch(E(a).bottom, E(b).top)
       /\ ~In(tiles[a].down, b)

\* the case of C2: two tiles, A's right edge matches B's left edge and no
\* other pair of facing edges of A and B matches
OnlyRightMatches(a, b) ==
  /\ N = 2
  /\ a # b
  /\ HasImage(tiles[a])
  /\ HasImage(tiles[b])
  /\ edgesMatch(E(a).right, E(b).left)
  /\ ~edgesMatch(E(a).bottom, E(b).top)
  /\ ~edgesMatch(E(a).left, E(b).right)
  /\ ~edgesMatch(E(a).top, E(b).bottom)

\* C2 as claimed: in that case B is in A.right only and B has no relation.
C2_NoRelationOnB ==
  AfterRun =>
    \A a \in 1..N : \A b \in 1..N :
      OnlyRightMatches(a, b) =>
        /\ tiles[a].right = <<b>>
        /\ tiles[a].up = <<>> /\ tiles[a].down = <<>> /\ tiles[a].left = <<>>
        /\ tiles[b].up = <<>> /\ tiles[b].down = <<>>
        /\ tiles[b].left = <<>> /\ tiles[b].right = <<>>

\* C2 amended: in that case B is in A.right and in no other list of A, and
\* the reciprocal relation is the only one on B: A is in B.left, and B.up,
\* B.down and B.right are empty.
C2_OnlyRightAndReciprocal ==
  AfterRun =>
    \A a \in 1..N : \A b \in 1..N :
      OnlyRightMatches(a, b) =>
        /\ tiles[a].right = <<b>>
        /\ tiles[a].up = <<>> /\ tiles[a].down = <<>> /\ tiles[a].left = <<>>
        /\ tiles[b].left = <<a>>
        /\ tiles[b].up = <<>> /\ tiles[b].down = <<>> /\ tiles[b].right = <<>>

C2_Witness == AfterRun /\ OnlyRightMatches(1, 2) /\ tiles[1].right = <<2>>

\* C3: in every state, no list of a tile holds a tile with that tile's id.
C3_SelfExclusion ==
  \A t \in 1..N :
    \A list \in {tiles[t].up, tiles[t].down, tiles[t].left, tiles[t].right} :
      list # Undefined =>
        \A k \in 1..Len(list) : tiles[list[k]].id # tiles[t].id

\* a tile whose right edge matches its own left edge, after a run that
\* recorded another tile in its right list
C3_Witness ==
  /\ AfterRun
  /\ \E t \in 1..N :
       /\ HasImage(tiles[t])
       /\ edgesMatch(E(t).right, E(t).left)
       /\ edgesMatch(E(t).top, E(t).bottom)
       /\ Len(tiles[t].right) > 0

\* the number of positions of the two edges within tolerance
Within(e1, e2) ==
  Cardinality({i \in 1..Len(e1) : SumSq(e1[i], e2[i]) <= tolerance * tolerance})

\* C4: for edges of equal length n > 0 with m positions within tolerance,
\* edgesMatch returns true iff 100 * m >= 98 * n; with n = 100, m = 98
\* matches and m = 97 does not; for n < 50 one position out of tolerance
\* makes the edges not match.
C4_ThresholdBoundary ==
  (epc = "returned" /\ Len(edge1) = Len(edge2) /\ Len(edge1) > 0) =>
    LET n == Len(edge1)
        m == Within(edge1, edge2)
    IN /\ matched <=> (100 * m >= 98 * n)
       /\ (n = 100 /\ m = 98) => matched
       /\ (n = 100 /\ m = 97) => ~matched
       /\ (n < 50 /\ m = n - 1) => ~matched

C4_Witness ==
  /\ epc = "returned"
  /\ Len(edge1) = 100
  /\ Len(edge2) = 100
  /\ Within(edge1, edge2) = 98
  /\ matched

\* C5: a position counts as matching iff the sum of the four squared channel
\* differences is <= 4 (Euclidean distance <= 2): on one-position edges
\* edgesMatch returns true exactly then.
C5_ToleranceBoundary ==
  (epc = "returned" /\ Len(edge1) = 1 /\ Len(edge2) = 1) =>
    (matched <=> SumSq(edge1[1], edge2[1]) <= 4)

\* a difference of 1 in each of the four channels: distance exactly 2
C5_Witness ==
  /\ epc = "returned"
  /\ Len(edge1) = 1
  /\ Len(edge2) = 1
  /\ \A ch \in 1..4 : edge2[1][ch] - edge1[1][ch] = 1
  /\ matched

\* a tile with no image, or whose image did not decode
Degraded(t) == ~HasImage(tiles[t]) \/ E(t) = EmptyEdges

\* the tile array without its tile t
Without(ts, t) == [k \in 1..(Len(ts) - 1) |-> IF k < t THEN ts[k] ELSE ts[k + 1]]

\* the edges of every tile of ts that has an image, by id
AllEdges(ts) ==
  [id \in {ts[k].id : k \in {j \in 1..Len(ts) : HasImage(ts[j])}} |->
     LET k == CHOOSE j \in 1..Len(ts) : ts[j].id = id
     IN extractEdgeColors(ts[k].image, tileSize)]

\* the lists one complete run leaves on the array ts
RunResult(ts) == CompareLoop(ResetLists(ts), AllEdges(ts), 0)

\* a list of references into the array, as references into Without(tiles, t)
Shift(list, t) == [k \in 1..Len(list) |-> IF list[k] > t THEN list[k] - 1 ELSE list[k]]

\* C6: after a run, a tile with no image or an undecodable image has four
\* present, empty lists, is in no list of another tile, and the other tiles'
\* lists are those of a run on the array without that tile.
C6_EmptyDataDegradation ==
  AfterRun =>
    \A t \in 1..N :
      Degraded(t) =>
        /\ tiles[t].up = <<>> /\ tiles[t].down = <<>>
        /\ tiles[t].left = <<>> /\ tiles[t].right = <<>>
        /\ \A u \in 1..N :
             /\ ~In(tiles[u].up, t) /\ ~In(tiles[u].down, t)
             /\ ~In(tiles[u].left, t) /\ ~In(tiles[u].right, t)
        /\ LET r == RunResult(Without(tiles, t)) IN
           \A u \in (1..N) \ {t} :
             LET v == IF u > t THEN u - 1 ELSE u IN
             /\ Shift(tiles[u].up, t) = r[v].up
             /\ Shift(tiles[u].down, t) = r[v].down
             /\ Shift(tiles[u].left, t) = r[v].left
             /\ Shift(tiles[u].right, t) = r[v].right

\* an undecodable tile beside two tiles that are neighbours of each other
C6_Witness ==
  /\ AfterRun
  /\ \E t \in 1..N :
       /\ tiles[t].image = BadImage
       /\ E(t) = EmptyEdges
       /\ tiles[t].right = <<>>
  /\ \E u \in 1..N : Len(tiles[u].right) > 0

Ordered(list) ==
  \A j \in 1..Len(list) : \A k \in 1..Len(list) : j < k => list[j] < list[k]

\* C7: after a run, every list is in the order of the input array.
C7_ListOrder ==
  AfterRun =>
    \A t \in 1..N :
      /\ Ordered(tiles[t].up) /\ Ordered(tiles[t].down)
      /\ Ordered(tiles[t].left) /\ Ordered(tiles[t].right)

C7_Witness == AfterRun /\ \E t \in 1..N : Len(tiles[t].down) >= 2

\* C8: a run made after an earlier run has completed leaves the lists the
\* earlier run left (same members, same order).
C8_Rebuild ==
  \A c \in 2..MaxCalls :
    calls[c].pc = "done" => calls[c].result = calls[1].result

C8_Witness ==
  /\ calls[2].pc = "done"
  /\ \E t \in 1..N : Len(tiles[t].left) > 0

\* C9: when a call started while another was awaiting, then once all calls
\* have returned the lists are those of one complete run.
C9_OverlapRebuilt ==
  (overlapped /\ InFlight = {}) => tiles = RunResult(tiles)

\* C10: after a run, for distinct A, B: B is in A.right iff A is in B.left,
\* and B is in A.down iff A is in B.up.
C10_Reciprocity ==
  AfterRun =>
    \A a \in 1..N : \A b \in 1..N :
      a # b =>
        /\ In(tiles[a].right, b) <=> In(tiles[b].left, a)
        /\ In(tiles[a].down, b) <=> In(tiles[b].up, a)

C10_Witness ==
  /\ AfterRun
  /\ \E a \in 1..N : \E b \in 1..N :
       /\ a # b
       /\ In(tiles[a].right, b)
       /\ In(tiles[b].left, a)
       /\ ~In(tiles[a].down, b)
       /\ ~In(tiles[b].up, a)

====
